---- MODULE Spec2Model ----
(***************************************************************************)
(* Lead generator MCP server (src/server.py): the job table LEAD_JOBS, the *)
(* artifact table CSV_FILES, the runner task _process_lead_generation, the *)
(* tools build and create, and the cleanup thread _cleanup_expired_files.  *)
(*                                                                         *)
(* The tools and the runner tasks are coroutines of one asyncio event      *)
(* loop: a coroutine runs alone from one await that suspends to the next.  *)
(* The cleanup thread is a real thread: its steps interleave with the      *)
(* event loop at every access to the two tables and to the files on disk.  *)
(***************************************************************************)
EXTENDS Integers, Sequences, FiniteSets, TLC

\* ------------------------------------------------------------------ bounds

\* uuid4 draws: the jobs one behaviour creates (one more under SpecTwo)
MaxJobs == 1
\* the wall clock runs from 0 to MaxTime, in units of the time-to-live
MaxTime == 2
\* non-empty lines in the text the query generator returns
MaxLines == 2
\* leads gathered before the last query, where the runner's accumulator is drawn
MaxAccum == 3
\* contacts in a list handed to generate_csv_file, where the list is drawn
MaxContacts == 2
\* records in a search response, where the extractor's inputs are drawn
MaxRecords == 2

\* ------------------------------------------------------- program constants

\* the artifact time-to-live, in clock ticks (CSV_TTL_SECONDS)
CSV_TTL_SECONDS == 1
\* queries[:5]
MaxQueries == 5

JobIds == 1..MaxJobs

\* a key a dict does not hold ('error' and 'completed_at' before they are set)
Absent == "<absent>"
\* _now(): created_at and completed_at are written and never read again, so
\* only the fact that a stamp was taken is kept
Stamp == "<utcnow>"

\* progress is a float in the code (70 / n is a true division); it is kept here
\* exactly, as a multiple of 1/60 (60 is divisible by every n in 1..5)
ProgressScale == 3 * 4 * 5
Pct(p) == p * ProgressScale

Min(a, b) == IF a < b THEN a ELSE b
Max(a, b) == IF a < b THEN b ELSE a

SeqToSet(s) == {s[k] : k \in 1..Len(s)}

\* ------------------------------------------------------------ LeadExtractor

\* A snippet is a sequence of tokens; a token is a phone number, an e-mail
\* address or some other word. re.search returns the leftmost match.
PhoneTokens == {"p1", "p2"}
EmailTokens == {"e1"}

RECURSIVE FirstIn(_, _)
FirstIn(text, tokens) ==
    IF text = <<>> THEN ""
    ELSE IF Head(text) \in tokens THEN Head(text)
    ELSE FirstIn(Tail(text), tokens)

_extract_phone(text) == FirstIn(text, PhoneTokens)

_extract_email(text) == FirstIn(text, EmailTokens)

\* a title is a sequence of pieces; replace() drops every ' - Google Search'
StripGoogle(title) == SelectSeq(title, LAMBDA piece : piece # " - Google Search")

OrganicLead(result, phone, email) ==
    [name |-> StripGoogle(result.title), website |-> result.link, phone |-> phone,
     email |-> email, address |-> "", rating |-> "", source |-> "search"]

PlaceLead(place) ==
    [name |-> place.title, website |-> place.website, phone |-> place.phoneNumber,
     email |-> "", address |-> place.address, rating |-> place.rating,
     source |-> "places"]

\* the loop over the organic results: <<leads, seen_phones>>
RECURSIVE OrganicLoop(_, _, _)
OrganicLoop(results, leads, seen) ==
    IF results = <<>> THEN <<leads, seen>>
    ELSE LET result == Head(results)
             phone == _extract_phone(result.snippet)
             email == _extract_email(result.snippet)
         IN IF phone # "" /\ phone \notin seen
            THEN OrganicLoop(Tail(results),
                             Append(leads, OrganicLead(result, phone, email)),
                             seen \cup {phone})
            ELSE OrganicLoop(Tail(results), leads, seen)

\* the loop over the places
RECURSIVE PlacesLoop(_, _, _)
PlacesLoop(places, leads, seen) ==
    IF places = <<>> THEN <<leads, seen>>
    ELSE LET place == Head(places)
             phone == place.phoneNumber
         IN IF phone # "" /\ phone \notin seen
            THEN PlacesLoop(Tail(places), Append(leads, PlaceLead(place)),
                            seen \cup {phone})
            ELSE PlacesLoop(Tail(places), leads, seen)

\* extract_leads_from_results with a seen_phones set of its own for the places
ExtractSeenPerSource(search_results, places_results) ==
    LET o == OrganicLoop(search_results, <<>>, {})
    IN PlacesLoop(places_results, o[1], {})[1]

extract_leads_from_results(search_results, places_results) ==
    LET o == OrganicLoop(search_results, <<>>, {})
    IN PlacesLoop(places_results, o[1], o[2])[1]

\* ------------------------------------------- _process_lead_generation, pure

\* lines 308-314: the first max_results leads with a phone not seen before
RECURSIVE UniqueLoop(_, _, _, _)

\* UniqueLoop without the test on seen_phones
UniqueLoopNoSeen(all_leads, unique_leads, seen_phones, max_results) ==
    IF all_leads = <<>> THEN unique_leads
    ELSE LET lead == Head(all_leads)
             phone == lead.phone
         IN IF phone # "" /\ Len(unique_leads) < max_results
            THEN UniqueLoop(Tail(all_leads), Append(unique_leads, lead),
                            seen_phones \cup {phone}, max_results)
            ELSE UniqueLoop(Tail(all_leads), unique_leads, seen_phones,
                            max_results)

\* UniqueLoop with the length test off by one
UniqueLoopOneMore(all_leads, unique_leads, seen_phones, max_results) ==
    IF all_leads = <<>> THEN unique_leads
    ELSE LET lead == Head(all_leads)
             phone == lead.phone
         IN IF phone # "" /\ phone \notin seen_phones
               /\ Len(unique_leads) <= max_results
            THEN UniqueLoop(Tail(all_leads), Append(unique_leads, lead),
                            seen_phones \cup {phone}, max_results)
            ELSE UniqueLoop(Tail(all_leads), unique_leads, seen_phones,
                            max_results)

UniqueLoop(all_leads, unique_leads, seen_phones, max_results) ==
    IF all_leads = <<>> THEN unique_leads
    ELSE LET lead == Head(all_leads)
             phone == lead.phone
         IN IF phone # "" /\ phone \notin seen_phones
               /\ Len(unique_leads) < max_results
            THEN UniqueLoop(Tail(all_leads), Append(unique_leads, lead),
                            seen_phones \cup {phone}, max_results)
            ELSE UniqueLoop(Tail(all_leads), unique_leads, seen_phones,
                            max_results)

UniqueLeads(all_leads, max_results) ==
    UniqueLoop(all_leads, <<>>, {}, max_results)

\* ProgressAfter as the share of the loop alone: the 20 reached before the
\* loop is left out and the queries are counted from 0
ProgressOfLoop(i, n) == i * (Pct(70) \div Max(1, n))

\* ProgressAfter with the floor division 70 // n
ProgressAfterFloor(i, n) == Pct(20) + (i + 1) * Pct(70 \div Max(1, n))

\* line 306: 20 + (i + 1) * (70 / max(1, len(queries))), i counted from 0
ProgressAfter(i, n) == Pct(20) + (i + 1) * (Pct(70) \div Max(1, n))

\* ------------------------------------------------------------------- state

VARIABLES
    LEAD_JOBS,   \* job id -> job dict
    CSV_FILES,   \* job id -> file info dict
    csv_keys,    \* the keys of CSV_FILES in insertion order (dict order)
    files,       \* job id -> rows of leads_<job id>.csv, for the files on disk
    now,         \* the wall clock
    issued,      \* number of uuid4 job ids drawn so far
    task,        \* job id -> the runner task of that job
    cr,          \* the create call being served, if any
    rc,          \* the cleanup thread
    reply        \* what the step just taken gave a tool's caller, if anything

vars == <<LEAD_JOBS, CSV_FILES, csv_keys, files, now, issued, task, cr, rc, reply>>

\* d[k] = v
Put(d, k, v) == [x \in DOMAIN d \cup {k} |-> IF x = k THEN v ELSE d[x]]
\* d.pop(k, None)
Pop(d, k) == [x \in DOMAIN d \ {k} |-> d[x]]

EmptyDict == [x \in {} |-> 0]

\* ----------------------------------------------------------- collaborators

GoogleSuffix == " - Google Search"

\* what SerperAPI.search can return under 'organic'
SearchResponses ==
    { <<>>,
      << [title |-> <<"A", GoogleSuffix>>, link |-> "a.com",
          snippet |-> <<"call", "p1", "e1">>] >> }

\* what SerperAPI.places_search can return under 'places'
PlacesResponses ==
    { << [title |-> <<"C">>, website |-> "c.com", phoneNumber |-> "p2",
          address |-> "1 C St", rating |-> "4"] >> }

\* the requirements strings build is called with: json.loads fails, or
\* LeadRequirement(**req_data) fails, or the request is valid
Requests ==
    { [json_ok |-> FALSE, fields_ok |-> FALSE, max_results |-> 0],
      [json_ok |-> TRUE, fields_ok |-> FALSE, max_results |-> 0],
      [json_ok |-> TRUE, fields_ok |-> TRUE, max_results |-> 2] }

\* ------------------------------------------------------------------- Init

NoTask ==
    [pc |-> "none", requirements |-> [max_results |-> 0], n |-> 0, i |-> 0,
     search_results |-> <<>>, all_leads |-> <<>>]

CrIdle == [pc |-> "idle", job_id |-> 0, results |-> <<>>, csv_content |-> <<>>]

RcWait ==
    [pc |-> "wait", current_time |-> 0, expired_jobs |-> <<>>, logged |-> <<>>,
     it_pos |-> 0, it_used |-> 0, k |-> 0]

\* a runner that has returned: its locals are gone
Done(t) == [NoTask EXCEPT !.pc = "done", !.requirements = t.requirements]

\* raised: the call ended in an McpError; otherwise result is what it returned
NoReply ==
    [tool |-> "none", raised |-> FALSE, result |-> "none", message |-> "",
     csv_content |-> <<>>]

\* the state after the module is loaded, ids being the job ids uuid4 will draw
InitWith(ids) ==
    /\ LEAD_JOBS = EmptyDict
    /\ CSV_FILES = EmptyDict
    /\ csv_keys = <<>>
    /\ files = EmptyDict
    /\ now = 0
    /\ issued = 0
    /\ task = [j \in ids |-> NoTask]
    /\ cr = CrIdle
    /\ rc = RcWait
    /\ reply = NoReply

Init == InitWith(JobIds)

\* the runner pcs inside the success write of lines 316-319
WritePcs == {"w_progress", "w_results", "w_completed_at"}

\* LoopFree with an await between the assignments of lines 316-319: the
\* event loop serves other coroutines while a runner is among them
LoopFreeBetweenWrites == cr.pc = "idle"

\* the event loop is between coroutine steps: no tool call is being served
\* (create never suspends) and no runner is between two awaits
LoopFree == cr.pc = "idle" /\ \A j \in DOMAIN task : task[j].pc \notin WritePcs

\* ------------------------------------------------------------------ build

NewJob(lead_req) ==
    [status |-> "processing", progress |-> 0,
     requirements |-> [max_results |-> lead_req.max_results],
     results |-> <<>>, created_at |-> Stamp, error |-> Absent,
     completed_at |-> Absent]

\* build storing the job before LeadRequirement(**req_data) has validated the
\* fields: the request that fails validation leaves a job and a task behind
buildThenValidate(requirements) ==
    /\ LoopFree
    /\ IF ~requirements.json_ok
       THEN /\ reply' = [tool |-> "build", raised |-> TRUE, result |-> "INVALID_PARAMS",
                       message |-> "Invalid requirements JSON",
                       csv_content |-> <<>>]
            /\ UNCHANGED <<LEAD_JOBS, issued, task>>
       ELSE /\ issued + 1 \in DOMAIN task
            /\ LET job_id == issued + 1
               IN /\ issued' = job_id
                  /\ LEAD_JOBS' = Put(LEAD_JOBS, job_id, NewJob(requirements))
                  /\ task' = [task EXCEPT ![job_id] =
                                [NoTask EXCEPT !.pc = "scheduled",
                                               !.requirements =
                                                   [max_results |-> requirements.max_results]]]
                  /\ reply' = IF requirements.fields_ok
                              THEN [tool |-> "build", raised |-> FALSE,
                                    result |-> "processing", message |-> "",
                                    csv_content |-> <<>>]
                              ELSE [tool |-> "build", raised |-> TRUE,
                                    result |-> "INTERNAL_ERROR",
                                    message |-> "Error starting lead generation",
                                    csv_content |-> <<>>]
    /\ UNCHANGED <<CSV_FILES, csv_keys, files, now, cr, rc>>

build(requirements) ==
    /\ LoopFree
    /\ IF ~requirements.json_ok
       THEN /\ reply' = [tool |-> "build", raised |-> TRUE, result |-> "INVALID_PARAMS",
                       message |-> "Invalid requirements JSON",
                       csv_content |-> <<>>]
            /\ UNCHANGED <<LEAD_JOBS, issued, task>>
       ELSE IF ~requirements.fields_ok
       THEN /\ reply' = [tool |-> "build", raised |-> TRUE, result |-> "INTERNAL_ERROR",
                       message |-> "Error starting lead generation",
                       csv_content |-> <<>>]
            /\ UNCHANGED <<LEAD_JOBS, issued, task>>
       ELSE /\ issued + 1 \in DOMAIN task
            /\ LET job_id == issued + 1
               IN /\ issued' = job_id
                  /\ LEAD_JOBS' = Put(LEAD_JOBS, job_id, NewJob(requirements))
                  /\ task' = [task EXCEPT ![job_id] =
                                [NoTask EXCEPT !.pc = "scheduled",
                                               !.requirements =
                                                   [max_results |-> requirements.max_results]]]
                  /\ reply' = [tool |-> "build", raised |-> FALSE, result |-> "processing",
                               message |-> "",
                               csv_content |-> <<>>]
    /\ UNCHANGED <<CSV_FILES, csv_keys, files, now, cr, rc>>

\* --------------------------------------------------- _process_lead_generation

\* SetProgress writing through a dict shared by all the jobs
SetProgressOfAll(jobs, job_id, p) ==
    [k \in DOMAIN jobs |-> [jobs[k] EXCEPT !.progress = p]]

\* job[field] = value on the dict the runner fetched at line 296; a dict that
\* was popped from LEAD_JOBS meanwhile is no longer seen by anyone
SetProgress(jobs, job_id, p) ==
    IF job_id \in DOMAIN jobs THEN [jobs EXCEPT ![job_id].progress = p] ELSE jobs

SetStatus(jobs, job_id, s) ==
    IF job_id \in DOMAIN jobs THEN [jobs EXCEPT ![job_id].status = s] ELSE jobs

SetResults(jobs, job_id, r) ==
    IF job_id \in DOMAIN jobs THEN [jobs EXCEPT ![job_id].results = r] ELSE jobs

SetCompletedAt(jobs, job_id) ==
    IF job_id \in DOMAIN jobs THEN [jobs EXCEPT ![job_id].completed_at = Stamp]
    ELSE jobs

\* Complete without line 316: the status stays as it was
CompleteNoStatus(jobs, job_id, unique_leads) ==
    SetCompletedAt(
        SetResults(SetProgress(jobs, job_id, Pct(100)), job_id, unique_leads),
        job_id)

\* lines 316-319 in one step
Complete(jobs, job_id, unique_leads) ==
    SetCompletedAt(
        SetResults(SetProgress(SetStatus(jobs, job_id, "completed"), job_id, Pct(100)),
                   job_id, unique_leads),
        job_id)

\* RecordFailure that records the error and leaves the status as it was
RecordErrorOnly(jobs, job_id, requirements, e) ==
    IF job_id \in DOMAIN jobs THEN [jobs EXCEPT ![job_id].error = e] ELSE jobs

\* lines 320-333: the except branch
RecordFailure(jobs, job_id, requirements, e) ==
    IF job_id \in DOMAIN jobs
    THEN [jobs EXCEPT ![job_id].status = "failed", ![job_id].error = e]
    ELSE Put(jobs, job_id,
             [status |-> "failed", progress |-> 0, requirements |-> requirements,
              results |-> <<>>, created_at |-> Stamp, error |-> e,
              completed_at |-> Absent])

\* Raise with the handler inside the loop over the queries: the failure is
\* recorded and the runner goes on
RaiseAndGoOn(job_id, e) ==
    /\ LEAD_JOBS' = RecordFailure(LEAD_JOBS, job_id, task[job_id].requirements, e)
    /\ UNCHANGED task

\* an exception raised inside the try block: the handler runs, the task ends
Raise(job_id, e) ==
    /\ LEAD_JOBS' = RecordFailure(LEAD_JOBS, job_id, task[job_id].requirements, e)
    /\ task' = [task EXCEPT ![job_id] = Done(@)]

\* lines 308-319 once the loop over the queries has ended, jobs being
\* LEAD_JOBS after the last progress write; fine = TRUE takes the four
\* assignments of lines 316-319 one at a time (here the first, line 316)
Finish(jobs, job_id, all_leads, fine) ==
    LET unique_leads ==
            UniqueLeads(all_leads, task[job_id].requirements.max_results)
    IN IF fine
       THEN /\ LEAD_JOBS' = SetStatus(jobs, job_id, "completed")
            /\ task' = [task EXCEPT ![job_id].pc = "w_progress",
                                    ![job_id].search_results = <<>>,
                                    ![job_id].all_leads = unique_leads]
       ELSE /\ LEAD_JOBS' = Complete(jobs, job_id, unique_leads)
            /\ task' = [task EXCEPT ![job_id] = Done(@)]

\* lines 296-298, up to the await of generate_search_queries
RunStart(job_id) ==
    /\ LoopFree
    /\ task[job_id].pc = "scheduled"
    /\ IF job_id \in DOMAIN LEAD_JOBS
       THEN /\ LEAD_JOBS' = SetProgress(LEAD_JOBS, job_id, Pct(10))
            /\ task' = [task EXCEPT ![job_id].pc = "gen"]
       ELSE Raise(job_id, "KeyError")
    /\ reply' = NoReply
    /\ UNCHANGED <<CSV_FILES, csv_keys, files, now, issued, cr, rc>>

\* GenReturnFrom with the two searches of a query started together: the
\* places search is in flight before the organic search has returned
GenReturnStartsPlaces(job_id, fine, line_counts) ==
    /\ LoopFree
    /\ task[job_id].pc = "gen"
    /\ \/ Raise(job_id, "Gemini API error")
       \/ \E lines \in line_counts :
            LET n == Min(lines, MaxQueries)
            IN IF n = 0
               THEN Finish(SetProgress(LEAD_JOBS, job_id, Pct(20)), job_id, <<>>, fine)
               ELSE /\ LEAD_JOBS' = SetProgress(LEAD_JOBS, job_id, Pct(20))
                    /\ task' = [task EXCEPT ![job_id].pc = "places",
                                            ![job_id].n = n, ![job_id].i = 0]
    /\ reply' = NoReply
    /\ UNCHANGED <<CSV_FILES, csv_keys, files, now, issued, cr, rc>>

\* generate_search_queries raises, or returns the first MaxQueries of a
\* number of lines drawn from line_counts; lines 299-302
GenReturnFrom(job_id, fine, line_counts) ==
    /\ LoopFree
    /\ task[job_id].pc = "gen"
    /\ \/ Raise(job_id, "Gemini API error")
       \/ \E lines \in line_counts :
            LET n == Min(lines, MaxQueries)
            IN IF n = 0
               THEN Finish(SetProgress(LEAD_JOBS, job_id, Pct(20)), job_id, <<>>, fine)
               ELSE /\ LEAD_JOBS' = SetProgress(LEAD_JOBS, job_id, Pct(20))
                    /\ task' = [task EXCEPT ![job_id].pc = "search",
                                            ![job_id].n = n, ![job_id].i = 0]
    /\ reply' = NoReply
    /\ UNCHANGED <<CSV_FILES, csv_keys, files, now, issued, cr, rc>>

GenReturn(job_id, fine) == GenReturnFrom(job_id, fine, 0..MaxLines)

\* SerperAPI.search returns one of `responses` or raises; line 302 to the
\* await of line 303
SearchReturnFrom(job_id, responses) ==
    /\ LoopFree
    /\ task[job_id].pc = "search"
    /\ \/ Raise(job_id, "Serper API error")
       \/ \E search_results \in responses :
            /\ task' = [task EXCEPT ![job_id].pc = "places",
                                    ![job_id].search_results = search_results]
            /\ UNCHANGED LEAD_JOBS
    /\ reply' = NoReply
    /\ UNCHANGED <<CSV_FILES, csv_keys, files, now, issued, cr, rc>>

SearchReturn(job_id) == SearchReturnFrom(job_id, SearchResponses)

\* SerperAPI.places_search returns one of `responses` or raises; lines
\* 303-306, then the next query or lines 308-319
PlacesReturnFrom(job_id, fine, responses) ==
    /\ LoopFree
    /\ task[job_id].pc = "places"
    /\ \/ Raise(job_id, "Serper Places API error")
       \/ \E places_results \in responses :
            LET t == task[job_id]
                leads == extract_leads_from_results(t.search_results, places_results)
                all_leads == t.all_leads \o leads
            IN IF t.i + 1 < t.n
               THEN /\ LEAD_JOBS' = SetProgress(LEAD_JOBS, job_id, ProgressAfter(t.i, t.n))
                    /\ task' = [task EXCEPT ![job_id].pc = "search",
                                            ![job_id].i = t.i + 1,
                                            ![job_id].search_results = <<>>,
                                            ![job_id].all_leads = all_leads]
               ELSE Finish(SetProgress(LEAD_JOBS, job_id, ProgressAfter(t.i, t.n)),
                           job_id, all_leads, fine)
    /\ reply' = NoReply
    /\ UNCHANGED <<CSV_FILES, csv_keys, files, now, issued, cr, rc>>

PlacesReturn(job_id, fine) == PlacesReturnFrom(job_id, fine, PlacesResponses)

\* lines 317-319, one assignment a step, the runner keeping the event loop
WriteProgress(job_id) ==
    /\ task[job_id].pc = "w_progress"
    /\ LEAD_JOBS' = SetProgress(LEAD_JOBS, job_id, Pct(100))
    /\ task' = [task EXCEPT ![job_id].pc = "w_results"]
    /\ reply' = NoReply
    /\ UNCHANGED <<CSV_FILES, csv_keys, files, now, issued, cr, rc>>

WriteResults(job_id) ==
    /\ task[job_id].pc = "w_results"
    /\ LEAD_JOBS' = SetResults(LEAD_JOBS, job_id, task[job_id].all_leads)
    /\ task' = [task EXCEPT ![job_id].pc = "w_completed_at",
                            ![job_id].all_leads = <<>>]
    /\ reply' = NoReply
    /\ UNCHANGED <<CSV_FILES, csv_keys, files, now, issued, cr, rc>>

WriteCompletedAt(job_id) ==
    /\ task[job_id].pc = "w_completed_at"
    /\ LEAD_JOBS' = SetCompletedAt(LEAD_JOBS, job_id)
    /\ task' = [task EXCEPT ![job_id] = Done(@)]
    /\ reply' = NoReply
    /\ UNCHANGED <<CSV_FILES, csv_keys, files, now, issued, cr, rc>>

\* ------------------------------------------------------------------ create

FieldNames == <<"name", "phone", "email", "website", "address", "rating", "source">>

\* lead.get(field, '')
Get(lead, field) == IF field \in DOMAIN lead THEN lead[field] ELSE ""

\* the fields of FieldNames from position f on that the lead has
RECURSIVE FieldsHeld(_, _)
FieldsHeld(lead, f) ==
    IF f > Len(FieldNames) THEN <<>>
    ELSE IF FieldNames[f] \in DOMAIN lead
    THEN <<lead[FieldNames[f]]>> \o FieldsHeld(lead, f + 1)
    ELSE FieldsHeld(lead, f + 1)

\* CsvRows writing of each lead the fields it has, without lead.get
CsvRowsOfFieldsHeld(leads) ==
    <<FieldNames>> \o [r \in 1..Len(leads) |-> FieldsHeld(leads[r], 1)]

\* CSVGenerator.generate_csv_file: the header, then one row a lead
CsvRows(leads) ==
    <<FieldNames>> \o [r \in 1..Len(leads) |->
                         [f \in 1..Len(FieldNames) |-> Get(leads[r], FieldNames[f])]]

\* an exception inside create's try block: line 463 raises an McpError with
\* code INTERNAL_ERROR whose message ends in the exception's text
CrRaise(message) ==
    /\ cr' = CrIdle
    /\ reply' = [tool |-> "create", raised |-> TRUE, result |-> "INTERNAL_ERROR",
                message |-> message,
                csv_content |-> <<>>]

\* line 429: the call arrives; job_id not in LEAD_JOBS raises "Job ID not
\* found", which line 462 catches and raises again as an INTERNAL_ERROR
CrCheck(job_id) ==
    /\ LoopFree
    /\ IF job_id \notin DOMAIN LEAD_JOBS
       THEN CrRaise("Job ID not found")
       ELSE /\ cr' = [CrIdle EXCEPT !.pc = "lookup", !.job_id = job_id]
            /\ reply' = NoReply
    /\ UNCHANGED <<LEAD_JOBS, CSV_FILES, csv_keys, files, now, issued, task, rc>>

\* CrLookup without the tests of lines 433-442: an artifact is made of a job
\* in any state
CrLookupAnyStatus ==
    /\ cr.pc = "lookup"
    /\ IF cr.job_id \notin DOMAIN LEAD_JOBS
       THEN CrRaise("KeyError")
       ELSE LET job == LEAD_JOBS[cr.job_id]
            IN /\ cr' = [cr EXCEPT !.pc = "write_file", !.results = job.results]
               /\ reply' = NoReply
    /\ UNCHANGED <<LEAD_JOBS, CSV_FILES, csv_keys, files, now, issued, task, rc>>

\* CrLookup without the test for a failed job
CrLookupNoFailed ==
    /\ cr.pc = "lookup"
    /\ IF cr.job_id \notin DOMAIN LEAD_JOBS
       THEN CrRaise("KeyError")
       ELSE LET job == LEAD_JOBS[cr.job_id]
            IN IF job.status = "processing"
               THEN /\ cr' = CrIdle
                    /\ reply' = [tool |-> "create", raised |-> FALSE,
                                 result |-> "processing", message |-> "",
                                 csv_content |-> <<>>]
               ELSE /\ cr' = [cr EXCEPT !.pc = "write_file", !.results = job.results]
                    /\ reply' = NoReply
    /\ UNCHANGED <<LEAD_JOBS, CSV_FILES, csv_keys, files, now, issued, task, rc>>

\* lines 431-442: fetch the job dict and branch on its status
CrLookup ==
    /\ cr.pc = "lookup"
    /\ IF cr.job_id \notin DOMAIN LEAD_JOBS
       THEN CrRaise("KeyError")
       ELSE LET job == LEAD_JOBS[cr.job_id]
            IN IF job.status = "processing"
               THEN /\ cr' = CrIdle
                    /\ reply' = [tool |-> "create", raised |-> FALSE,
                                 result |-> "processing", message |-> "",
                                 csv_content |-> <<>>]
               ELSE IF job.status = "failed"
               THEN /\ cr' = CrIdle
                    /\ reply' = [tool |-> "create", raised |-> FALSE,
                                 result |-> "failed", message |-> job.error,
                                 csv_content |-> <<>>]
               ELSE /\ cr' = [cr EXCEPT !.pc = "write_file", !.results = job.results]
                    /\ reply' = NoReply
    /\ UNCHANGED <<LEAD_JOBS, CSV_FILES, csv_keys, files, now, issued, task, rc>>

\* line 443: generate_csv_file writes leads_<job_id>.csv
CrWriteFile ==
    /\ cr.pc = "write_file"
    /\ files' = Put(files, cr.job_id, CsvRows(cr.results))
    /\ cr' = [cr EXCEPT !.pc = "read_file"]
    /\ reply' = NoReply
    /\ UNCHANGED <<LEAD_JOBS, CSV_FILES, csv_keys, now, issued, task, rc>>

\* lines 444-445: read the file back
CrReadFile ==
    /\ cr.pc = "read_file"
    /\ IF cr.job_id \notin DOMAIN files
       THEN CrRaise("FileNotFoundError")
       ELSE /\ cr' = [cr EXCEPT !.pc = "store", !.csv_content = files[cr.job_id]]
            /\ reply' = NoReply
    /\ UNCHANGED <<LEAD_JOBS, CSV_FILES, csv_keys, files, now, issued, task, rc>>

\* leads_<job_id>.csv is named by its job id
FileInfo(job_id, expires_at, total_leads) ==
    [file_path |-> job_id, expires_at |-> expires_at, total_leads |-> total_leads]

\* CrStore with setdefault in the place of the assignment of line 447: the
\* entry of an earlier call is kept
CrStoreKeepsOld ==
    /\ cr.pc = "store"
    /\ CSV_FILES' = IF cr.job_id \in DOMAIN CSV_FILES THEN CSV_FILES
                    ELSE Put(CSV_FILES, cr.job_id,
                             FileInfo(cr.job_id, now + CSV_TTL_SECONDS,
                                      Len(cr.results)))
    /\ csv_keys' = IF cr.job_id \in DOMAIN CSV_FILES THEN csv_keys
                   ELSE Append(csv_keys, cr.job_id)
    /\ cr' = CrIdle
    /\ reply' = [tool |-> "create", raised |-> FALSE, result |-> "completed",
                 message |-> "", csv_content |-> cr.csv_content]
    /\ UNCHANGED <<LEAD_JOBS, files, now, issued, task, rc>>

\* lines 446-461: stamp the expiry, store the file info, answer
CrStore ==
    /\ cr.pc = "store"
    /\ CSV_FILES' = Put(CSV_FILES, cr.job_id,
                        FileInfo(cr.job_id, now + CSV_TTL_SECONDS, Len(cr.results)))
    /\ csv_keys' = IF cr.job_id \in DOMAIN CSV_FILES THEN csv_keys
                   ELSE Append(csv_keys, cr.job_id)
    /\ cr' = CrIdle
    /\ reply' = [tool |-> "create", raised |-> FALSE, result |-> "completed",
                 message |-> "",
                 csv_content |-> cr.csv_content]
    /\ UNCHANGED <<LEAD_JOBS, files, now, issued, task, rc>>

\* ---------------------------------------------------------- cleanup thread

\* line 89
Expired(current_time, file_info) == current_time > file_info.expires_at

\* lines 86-87: a sweep starts and reads the clock
RcStart ==
    /\ rc.pc = "wait"
    /\ rc' = [RcWait EXCEPT !.pc = "iter", !.current_time = now, !.it_pos = 1,
                            !.it_used = Len(csv_keys)]
    /\ reply' = NoReply
    /\ UNCHANGED <<LEAD_JOBS, CSV_FILES, csv_keys, files, now, issued, task, cr>>

\* RcIter with the try around the loop instead of inside it: the first
\* deletion that fails ends the loop
RcIterFailureEndsLoop ==
    /\ rc.pc = "iter"
    /\ IF rc.it_pos > 1 /\ Len(csv_keys) # rc.it_used
       THEN /\ rc' = [RcWait EXCEPT !.pc = "dead"]
            /\ UNCHANGED files
       ELSE IF rc.it_pos > Len(csv_keys)
       THEN /\ rc' = IF rc.expired_jobs = <<>> THEN RcWait
                     ELSE [rc EXCEPT !.pc = "pop_csv", !.it_pos = 0, !.it_used = 0,
                                     !.k = 1]
            /\ UNCHANGED files
       ELSE LET job_id == csv_keys[rc.it_pos]
                file_info == CSV_FILES[job_id]
            IN IF ~Expired(rc.current_time, file_info)
               THEN /\ rc' = [rc EXCEPT !.it_pos = @ + 1,
                                        !.it_used = Len(csv_keys)]
                    /\ UNCHANGED files
               ELSE \/ /\ file_info.file_path \in DOMAIN files
                       /\ rc' = [rc EXCEPT !.it_pos = Len(csv_keys) + 1,
                                           !.logged = Append(@, job_id)]
                       /\ UNCHANGED files
                    \/ /\ files' = Pop(files, file_info.file_path)
                       /\ rc' = [rc EXCEPT !.it_pos = @ + 1,
                                           !.it_used = Len(csv_keys),
                                           !.expired_jobs = Append(@, job_id)]
    /\ reply' = NoReply
    /\ UNCHANGED <<LEAD_JOBS, CSV_FILES, csv_keys, now, issued, task, cr>>

\* lines 88-95: one turn of the first loop. The interpreter makes the
\* iterator and takes its first item without letting another thread in; from
\* then on the thread can be switched out inside the loop's body (at its
\* calls and system calls), and the iterator raises RuntimeError at its next
\* item when the dict's size is no longer what it saw. Nothing catches the
\* error and the thread ends. When the loop ends the second loop starts, or the sweep is
\* over when nothing expired
RcIter ==
    /\ rc.pc = "iter"
    /\ IF rc.it_pos > 1 /\ Len(csv_keys) # rc.it_used
       THEN /\ rc' = [RcWait EXCEPT !.pc = "dead"]
            /\ UNCHANGED files
       ELSE IF rc.it_pos > Len(csv_keys)
       THEN /\ rc' = IF rc.expired_jobs = <<>> THEN RcWait
                     ELSE [rc EXCEPT !.pc = "pop_csv", !.it_pos = 0, !.it_used = 0,
                                     !.k = 1]
            /\ UNCHANGED files
       ELSE LET job_id == csv_keys[rc.it_pos]
                file_info == CSV_FILES[job_id]
            IN IF ~Expired(rc.current_time, file_info)
               THEN /\ rc' = [rc EXCEPT !.it_pos = @ + 1,
                                        !.it_used = Len(csv_keys)]
                    /\ UNCHANGED files
               ELSE \/ \* os.remove raises: logged, the entry is skipped
                       /\ file_info.file_path \in DOMAIN files
                       /\ rc' = [rc EXCEPT !.it_pos = @ + 1,
                                           !.it_used = Len(csv_keys),
                                           !.logged = Append(@, job_id)]
                       /\ UNCHANGED files
                    \/ \* the file is gone already or is removed
                       /\ files' = Pop(files, file_info.file_path)
                       /\ rc' = [rc EXCEPT !.it_pos = @ + 1,
                                           !.it_used = Len(csv_keys),
                                           !.expired_jobs = Append(@, job_id)]
    /\ reply' = NoReply
    /\ UNCHANGED <<LEAD_JOBS, CSV_FILES, csv_keys, now, issued, task, cr>>

\* line 97
RcPopCsv ==
    /\ rc.pc = "pop_csv"
    /\ LET job_id == rc.expired_jobs[rc.k]
       IN /\ CSV_FILES' = Pop(CSV_FILES, job_id)
          /\ csv_keys' = SelectSeq(csv_keys, LAMBDA key : key # job_id)
    /\ rc' = [rc EXCEPT !.pc = "pop_job"]
    /\ reply' = NoReply
    /\ UNCHANGED <<LEAD_JOBS, files, now, issued, task, cr>>

\* RcPopJob without line 98: the job of a removed artifact stays
RcPopJobKeepsJob ==
    /\ rc.pc = "pop_job"
    /\ UNCHANGED LEAD_JOBS
    /\ rc' = IF rc.k = Len(rc.expired_jobs) THEN RcWait
             ELSE [rc EXCEPT !.pc = "pop_csv", !.k = @ + 1]
    /\ reply' = NoReply
    /\ UNCHANGED <<CSV_FILES, csv_keys, files, now, issued, task, cr>>

\* line 98, then the next expired job or the wait of line 104
RcPopJob ==
    /\ rc.pc = "pop_job"
    /\ LEAD_JOBS' = Pop(LEAD_JOBS, rc.expired_jobs[rc.k])
    /\ rc' = IF rc.k = Len(rc.expired_jobs) THEN RcWait
             ELSE [rc EXCEPT !.pc = "pop_csv", !.k = @ + 1]
    /\ reply' = NoReply
    /\ UNCHANGED <<CSV_FILES, csv_keys, files, now, issued, task, cr>>

\* ------------------------------------------------------------------ clock

Tick ==
    /\ now < MaxTime
    /\ now' = now + 1
    /\ reply' = NoReply
    /\ UNCHANGED <<LEAD_JOBS, CSV_FILES, csv_keys, files, issued, task, cr, rc>>

\* ---------------------------------------------------------- specifications

Runner ==
    \E job_id \in DOMAIN task :
        \/ RunStart(job_id)
        \/ GenReturn(job_id, FALSE)
        \/ SearchReturn(job_id)
        \/ PlacesReturn(job_id, FALSE)

Tools ==
    \/ \E requirements \in Requests : build(requirements)
    \/ \E job_id \in DOMAIN task : CrCheck(job_id)
    \/ CrLookup
    \/ CrWriteFile
    \/ CrReadFile
    \/ CrStore

Cleanup == RcStart \/ RcIter \/ RcPopCsv \/ RcPopJob

Next == Tools \/ Runner \/ Cleanup \/ Tick

\* the server with MaxJobs jobs: coroutine steps are atomic, the cleanup
\* thread interleaves with them
Spec == Init /\ [][Next]_vars

\* A sweep and a tool call that do not overlap: tools are served while the
\* cleanup thread waits, and a sweep runs while no create call is under way.
NextSerial ==
    \/ rc.pc = "wait" /\ Tools
    \/ Runner
    \/ cr.pc = "idle" /\ Cleanup
    \/ Tick

\* The event loop alone: tool calls and runners, the text of the query
\* generator having no line, one line or one line more than line 206 keeps.
\* The loop serves its ready callbacks first in, first out, so a runner whose
\* awaited call has returned is resumed however many tool calls arrive
\* (strong fairness of its steps); create is straight-line code and runs to
\* its end once called.
RunnerOf(job_id) ==
    \/ RunStart(job_id)
    \/ GenReturnFrom(job_id, FALSE, {0, 1, MaxQueries + 1})
    \/ SearchReturn(job_id)
    \/ PlacesReturn(job_id, FALSE)

CreateRuns == CrLookup \/ CrWriteFile \/ CrReadFile \/ CrStore

NextLoop == Tools \/ \E job_id \in JobIds : RunnerOf(job_id)

SpecLoop ==
    /\ Init
    /\ [][NextLoop]_vars
    /\ WF_vars(CreateRuns)
    /\ \A job_id \in JobIds : SF_vars(RunnerOf(job_id))

\* The runners alone, the text of the query generator having any number of
\* lines from none to one more than line 206 keeps
RunnerAnyLines(job_id) ==
    \/ RunStart(job_id)
    \/ GenReturnFrom(job_id, FALSE, 0..(MaxQueries + 1))
    \/ SearchReturn(job_id)
    \/ PlacesReturn(job_id, FALSE)

NextRunners ==
    \/ \E requirements \in Requests : build(requirements)
    \/ \E job_id \in JobIds : RunnerAnyLines(job_id)

SpecRunners == Init /\ [][NextRunners]_vars

\* The event loop with one more job: tool calls and the runners of jobs that
\* run side by side, the query generator returning no line or two
RunnerTwoLines(job_id) ==
    \/ RunStart(job_id)
    \/ GenReturnFrom(job_id, FALSE, {0, 2})
    \/ SearchReturn(job_id)
    \/ PlacesReturn(job_id, FALSE)

NextLoopTwo == Tools \/ \E job_id \in DOMAIN task : RunnerTwoLines(job_id)

SpecLoopTwo == InitWith(1..(MaxJobs + 1)) /\ [][NextLoopTwo]_vars

\* the server with one more job
SpecTwo == InitWith(1..(MaxJobs + 1)) /\ [][Next]_vars

SpecSerial == Init /\ [][NextSerial]_vars

\* The sweep as a function of the tables: the state it starts from is drawn
\* from those the server leaves behind once every job has completed and some
\* of them were given an artifact, at different times and in any order; the
\* files of those in `gone` were deleted from the temporary directory since.
SweepIds == 1..(MaxJobs + 1)

SweptResults ==
    UniqueLeads(extract_leads_from_results(<<>>, CHOOSE r \in PlacesResponses : TRUE),
                2)

InitSweep ==
    \E t0 \in 0..MaxTime, held \in SUBSET SweepIds, gone \in SUBSET SweepIds :
      \E order \in [1..Cardinality(held) -> held],
         expires_at \in [held -> 1..(MaxTime + CSV_TTL_SECONDS)] :
        /\ \A a, b \in DOMAIN order : a # b => order[a] # order[b]
        /\ \A j \in held : expires_at[j] <= t0 + CSV_TTL_SECONDS
        /\ gone \subseteq held
        /\ LEAD_JOBS = [j \in SweepIds |->
                          Complete(Put(EmptyDict, j, NewJob([max_results |-> 2])),
                                   j, SweptResults)[j]]
        /\ CSV_FILES = [j \in held |-> FileInfo(j, expires_at[j], Len(SweptResults))]
        /\ csv_keys = order
        /\ files = [j \in held \ gone |-> CsvRows(SweptResults)]
        /\ now = t0
        /\ issued = Cardinality(SweepIds)
        /\ task = [j \in SweepIds |-> Done([NoTask EXCEPT !.requirements =
                                                          [max_results |-> 2]])]
        /\ cr = CrIdle
        /\ rc = RcWait
        /\ reply = NoReply

NextSweep == Cleanup \/ Tick

SpecSweep == InitSweep /\ [][NextSweep]_vars

\* The success write of lines 316-319 taken one assignment at a time: the
\* states between the assignments exist for the cleanup thread, while the
\* event loop serves nobody else until the runner has written all four.
RunnerFine ==
    \E job_id \in DOMAIN task :
        \/ RunStart(job_id)
        \/ GenReturn(job_id, TRUE)
        \/ SearchReturn(job_id)
        \/ PlacesReturn(job_id, TRUE)
        \/ WriteProgress(job_id)
        \/ WriteResults(job_id)
        \/ WriteCompletedAt(job_id)

NextThreads == Tools \/ RunnerFine \/ Cleanup \/ Tick

SpecThreads == Init /\ [][NextThreads]_vars

\* The runner on its last query, its accumulator drawn from the sequences of
\* leads the extractor can have given for the queries before; max_results is
\* any int that LeadRequirement accepts (the field has no lower bound).
AccumLeads ==
    {OrganicLead(r, _extract_phone(r.snippet), _extract_email(r.snippet)) :
        r \in UNION {SeqToSet(rs) : rs \in SearchResponses}}
    \cup {PlaceLead(p) : p \in UNION {SeqToSet(ps) : ps \in PlacesResponses}}
    \cup {PlaceLead([title |-> <<"D">>, website |-> "d.com", phoneNumber |-> ph,
                     address |-> "", rating |-> ""]) : ph \in {"p1", "p3"}}

Accumulators == UNION {[1..len -> AccumLeads] : len \in 0..MaxAccum}

InitUnique ==
    \E max_results \in (0 - 1)..MaxAccum, all_leads \in Accumulators,
       search_results \in SearchResponses :
        /\ LEAD_JOBS = Put(EmptyDict, 1,
                           [NewJob([max_results |-> max_results]) EXCEPT
                                !.progress = ProgressAfter(MaxQueries - 2, MaxQueries)])
        /\ CSV_FILES = EmptyDict
        /\ csv_keys = <<>>
        /\ files = EmptyDict
        /\ now = 0
        /\ issued = 1
        /\ task = [j \in JobIds |->
                     IF j = 1
                     THEN [pc |-> "places",
                           requirements |-> [max_results |-> max_results],
                           n |-> MaxQueries, i |-> MaxQueries - 1,
                           search_results |-> search_results,
                           all_leads |-> all_leads]
                     ELSE NoTask]
        /\ cr = CrIdle
        /\ rc = RcWait
        /\ reply = NoReply

NextUnique == PlacesReturn(1, FALSE)

SpecUnique == InitUnique /\ [][NextUnique]_vars

\* extract_leads_from_results as a function of the two responses: a runner
\* on a query that is not its last, with nothing gathered so far, whose
\* searches return any lists of up to MaxRecords records, among them records without a phone, with two phones,
\* and with a phone another record has.
OrganicRecords ==
    UNION {SeqToSet(rs) : rs \in SearchResponses}
    \cup {[title |-> <<"B">>, link |-> "b.com", snippet |-> <<"p2", "or", "p1">>],
          [title |-> <<"M">>, link |-> "m.com", snippet |-> <<"mail", "e1">>],
          [title |-> <<"N", GoogleSuffix>>, link |-> "n.com", snippet |-> <<"p1">>]}

PlaceRecords ==
    UNION {SeqToSet(ps) : ps \in PlacesResponses}
    \cup {[title |-> <<"D">>, website |-> "d.com", phoneNumber |-> ph,
           address |-> "", rating |-> ""] : ph \in {"p1", "", "p3"}}

OrganicInputs == UNION {[1..len -> OrganicRecords] : len \in 0..MaxRecords}

PlacesInputs == UNION {[1..len -> PlaceRecords] : len \in 0..MaxRecords}

InitExtract ==
    \E search_results \in OrganicInputs, i \in {0, 1, MaxQueries - 2} :
        /\ LEAD_JOBS = Put(EmptyDict, 1,
                           [NewJob([max_results |-> 2]) EXCEPT
                                !.progress = IF i = 0 THEN Pct(20)
                                             ELSE ProgressAfter(i - 1, MaxQueries)])
        /\ CSV_FILES = EmptyDict
        /\ csv_keys = <<>>
        /\ files = EmptyDict
        /\ now = 0
        /\ issued = 1
        /\ task = [j \in JobIds |->
                     IF j = 1
                     THEN [pc |-> "places", requirements |-> [max_results |-> 2],
                           n |-> MaxQueries, i |-> i,
                           search_results |-> search_results, all_leads |-> <<>>]
                     ELSE NoTask]
        /\ cr = CrIdle
        /\ rc = RcWait
        /\ reply = NoReply

NextExtract == PlacesReturnFrom(1, FALSE, PlacesInputs)

SpecExtract == InitExtract /\ [][NextExtract]_vars

\* generate_csv_file as a function of the list it is given: a create call at
\* line 443, its list drawn from the leads the extractor gives and from dicts
\* that lack some of the seven keys.
Contacts ==
    AccumLeads \cup {[name |-> <<"E">>, phone |-> "p1"], [website |-> "f.com"]}

ContactLists == UNION {[1..len -> Contacts] : len \in 0..MaxContacts}

InitCsv ==
    \E leads \in ContactLists :
        /\ LEAD_JOBS = Complete(Put(EmptyDict, 1, NewJob([max_results |-> MaxContacts])),
                                1, leads)
        /\ CSV_FILES = EmptyDict
        /\ csv_keys = <<>>
        /\ files = EmptyDict
        /\ now = 0
        /\ issued = 1
        /\ task = [j \in JobIds |->
                     IF j = 1
                     THEN Done([NoTask EXCEPT !.requirements =
                                                 [max_results |-> MaxContacts]])
                     ELSE NoTask]
        /\ cr = [CrIdle EXCEPT !.pc = "write_file", !.job_id = 1, !.results = leads]
        /\ rc = RcWait
        /\ reply = NoReply

NextCsv == CrWriteFile \/ CrReadFile \/ CrStore

SpecCsv == InitCsv /\ [][NextCsv]_vars

\* ------------------------------------------------------------------ claims

Jobs == DOMAIN LEAD_JOBS
Terminal == {"completed", "failed"}

\* C1: a job's status changes at most once, from processing to completed or
\* to failed; a terminal status is never changed by any step, a job id enters
\* LEAD_JOBS only as the fresh id of a build call, with status processing, and
\* an id that left LEAD_JOBS never comes back.
C1_StatusChangesOnce ==
    [][\A j \in DOMAIN task :
         /\ (j \in Jobs /\ j \in Jobs' /\ LEAD_JOBS[j].status \in Terminal)
                => LEAD_JOBS'[j].status = LEAD_JOBS[j].status
         /\ (j \in Jobs /\ j \in Jobs' /\ LEAD_JOBS[j].status = "processing")
                => LEAD_JOBS'[j].status \in {"processing"} \cup Terminal
         /\ (j \notin Jobs /\ j \in Jobs')
                => /\ j = issued + 1
                   /\ issued' = j
                   /\ LEAD_JOBS'[j].status = "processing"]_vars

\* the cleanup thread removed a job that had completed, and it stayed away
C1_Witness ==
    /\ issued >= 1
    /\ 1 \notin Jobs
    /\ task[1].pc = "done"
    /\ rc.pc = "wait"

\* C2: the results of a completed job hold no lead with an empty phone and no
\* two leads with the same phone.
C2_ResultsPhonesUnique ==
    \A j \in Jobs :
        LEAD_JOBS[j].status = "completed" =>
            LET results == LEAD_JOBS[j].results
            IN /\ \A a \in 1..Len(results) : results[a].phone # ""
               /\ \A a, b \in 1..Len(results) :
                    a # b => results[a].phone # results[b].phone

\* a job completed with two leads, the place of the first query ahead of the
\* organic lead of the second: the second query's place repeated a phone
C2_Witness ==
    \E j \in Jobs :
        /\ LEAD_JOBS[j].status = "completed"
        /\ Len(LEAD_JOBS[j].results) = 2
        /\ LEAD_JOBS[j].results[1].source = "places"
        /\ LEAD_JOBS[j].results[2].source = "search"

\* the leads of s whose phone did not occur earlier in s
RECURSIVE FirstOccurrences(_)
FirstOccurrences(s) ==
    IF s = <<>> THEN <<>>
    ELSE LET front == SubSeq(s, 1, Len(s) - 1)
             last == s[Len(s)]
         IN IF \E h \in 1..Len(front) : front[h].phone = last.phone
            THEN FirstOccurrences(front)
            ELSE Append(FirstOccurrences(front), last)

FirstN(s, n) == IF n <= 0 THEN <<>> ELSE SubSeq(s, 1, Min(Len(s), n))

\* the step of job j's runner that ends the loop over the queries in success
C3_Completes(j) ==
    /\ task[j].pc = "places"
    /\ j \in Jobs'
    /\ LEAD_JOBS'[j].status = "completed"

\* the results written by that step are the first `limit` leads of the
\* accumulator without its repeated phones
C3_ResultsAre(j, limit) ==
    \E places_results \in PlacesResponses :
        LET accumulator ==
                task[j].all_leads
                    \o extract_leads_from_results(task[j].search_results, places_results)
            distinct == FirstOccurrences(accumulator)
            results == LEAD_JOBS'[j].results
        IN /\ results = FirstN(distinct, limit)
           /\ Len(results) <= limit
           /\ Len(distinct) >= limit => Len(results) = limit

\* C3 as stated: results is the first max_results leads of the accumulator
\* after dropping every lead whose phone occurred earlier, so that
\* len(results) <= max_results, with equality when the accumulator holds at
\* least max_results distinct phones.
C3_FirstMaxResults ==
    [][\A j \in DOMAIN task :
         C3_Completes(j) =>
            C3_ResultsAre(j, LEAD_JOBS'[j].requirements.max_results)]_vars

\* C3 as amended: the same with max(0, max_results) for max_results, which
\* LeadRequirement lets be negative.
C3_FirstMaxResultsOrNone ==
    [][\A j \in DOMAIN task :
         C3_Completes(j) =>
            C3_ResultsAre(j, Max(0, LEAD_JOBS'[j].requirements.max_results))]_vars

\* a job completed with max_results = 2 leads and none of them is the place
\* the last query returned: the accumulator held a third phone, cut off
C3_Witness ==
    \E j \in Jobs :
        /\ LEAD_JOBS[j].status = "completed"
        /\ LEAD_JOBS[j].requirements.max_results = 2
        /\ Len(LEAD_JOBS[j].results) = 2
        /\ \A k \in 1..2 : LEAD_JOBS[j].results[k].phone # "p2"
        /\ LEAD_JOBS[j].results[1].phone = "p3"

C6_FailureIsRecorded ==
    \A j \in Jobs :
        LET job == LEAD_JOBS[j]
        IN /\ task[j].pc = "done" => job.status \in Terminal
           /\ job.status = "failed"
                => /\ task[j].pc = "done"
                   /\ job.error \in {"Gemini API error", "Serper API error",
                                     "Serper Places API error"}
                   /\ job.results = <<>>
           /\ job.error # Absent => job.status = "failed"
           /\ job.results # <<>> => job.status = "completed"

\* the places search of the second query failed: the leads of the first
\* query are gone
C6_Witness ==
    \E j \in Jobs :
        /\ LEAD_JOBS[j].status = "failed"
        /\ LEAD_JOBS[j].error = "Serper Places API error"
        /\ LEAD_JOBS[j].progress = ProgressAfter(0, 2)
        /\ LEAD_JOBS[j].results = <<>>

\* a step of the create call
CreateStep == cr' # cr \/ reply'.tool = "create"

C9_MalformedLeavesNothing ==
    [][/\ \A requirements \in Requests :
            (build(requirements) /\ ~(requirements.json_ok /\ requirements.fields_ok))
                => /\ reply'.tool = "build"
                   /\ reply'.raised
                   /\ LEAD_JOBS' = LEAD_JOBS
                   /\ task' = task
                   /\ issued' = issued
       /\ (reply'.tool = "build" /\ reply'.raised)
            => LEAD_JOBS' = LEAD_JOBS /\ task' = task
       /\ (Jobs' \ Jobs # {} \/ \E j \in DOMAIN task :
                                    task[j].pc = "none" /\ task'[j].pc # "none")
            => reply'.tool = "build" /\ ~reply'.raised]_vars

\* build has just rejected a request whose fields fail validation, and the
\* job table is as empty as before
C9_Witness ==
    /\ reply.tool = "build"
    /\ reply.raised
    /\ reply.result = "INTERNAL_ERROR"
    /\ LEAD_JOBS = EmptyDict
    /\ \A j \in DOMAIN task : task[j].pc = "none"

\* the success write of lines 316-319 is applied to job j in full or not at all
Whole(j) ==
    LET job == LEAD_JOBS[j]
    IN /\ job.status = "completed"
            => /\ job.progress = Pct(100)
               /\ job.completed_at = Stamp
               /\ task[j].pc = "done"
       /\ job.results # <<>> => job.status = "completed"
       /\ job.completed_at # Absent => job.status = "completed"

\* C8: in every state in which a reader reads a job (a create call can start
\* or is at its lookup, or the cleanup thread is about to pop the job) the
\* success write is applied to that job in full or not at all.
C8_NoPartialSuccessSeen ==
    \A j \in Jobs :
        \/ ENABLED CrCheck(j)
        \/ cr.pc = "lookup" /\ cr.job_id = j
        \/ rc.pc = "pop_job" /\ rc.expired_jobs[rc.k] = j
        => Whole(j)

\* a job is completed with its progress and results still to be written,
\* while the cleanup thread is in a sweep
C8_Witness ==
    \E j \in Jobs :
        /\ task[j].pc = "w_progress"
        /\ LEAD_JOBS[j].status = "completed"
        /\ LEAD_JOBS[j].progress # Pct(100)
        /\ rc.pc = "iter"

\* a step of the cleanup thread
SweepStep == rc' # rc

\* the step that ends a sweep
SweepEnds == rc.pc \in {"iter", "pop_job"} /\ rc'.pc = "wait"

\* C5 as stated: when a sweep ends, no artifact that had expired when the
\* sweep started is left in CSV_FILES.
C5_SweepRemovesExpired ==
    [][SweepEnds =>
         \A j \in DOMAIN CSV_FILES' :
            ~(rc.current_time > CSV_FILES'[j].expires_at)]_vars

\* C5 as amended: when a sweep ends, every job id it collected is gone from
\* CSV_FILES and from LEAD_JOBS, and an artifact that had expired is left
\* only if deleting its file raised (then its job is left too); a sweep adds
\* nothing to either map and removes only what it collected, so that a
\* second sweep leaves a removed id absent and, finding nothing to collect,
\* changes neither map.
C5_SweepRemovesDeleted ==
    [][SweepStep =>
        /\ DOMAIN CSV_FILES' \subseteq DOMAIN CSV_FILES
        /\ Jobs' \subseteq Jobs
        /\ \A j \in DOMAIN CSV_FILES' : CSV_FILES'[j] = CSV_FILES[j]
        /\ \A j \in Jobs' : LEAD_JOBS'[j] = LEAD_JOBS[j]
        /\ \A j \in (DOMAIN CSV_FILES \ DOMAIN CSV_FILES') \cup (Jobs \ Jobs') :
                j \in SeqToSet(rc.expired_jobs)
        /\ SweepEnds =>
              /\ \A j \in SeqToSet(rc.expired_jobs) :
                    j \notin DOMAIN CSV_FILES' /\ j \notin Jobs'
              /\ \A j \in DOMAIN CSV_FILES' :
                    rc.current_time > CSV_FILES'[j].expires_at
                        => j \in SeqToSet(rc.logged) /\ j \in Jobs'
              /\ rc.expired_jobs = <<>>
                    => CSV_FILES' = CSV_FILES /\ LEAD_JOBS' = LEAD_JOBS]_vars

\* a second sweep is under way after the first removed the job and its
\* artifact
C5_Witness ==
    /\ issued = 1
    /\ 1 \notin Jobs
    /\ 1 \notin DOMAIN CSV_FILES
    /\ 1 \notin DOMAIN files
    /\ rc.pc = "iter"

\* C10: a deletion that raises leaves the sweep in its loop, at the next
\* entry, with what it collected so far; and a sweep in which a deletion
\* raised ends with every other expired artifact out of CSV_FILES and its job
\* out of LEAD_JOBS.
C10_FailureSkipsOneEntry ==
    [][SweepStep =>
        /\ rc'.pc # "dead"
        /\ Len(rc'.logged) > Len(rc.logged)
              => /\ rc'.pc = "iter"
                 /\ rc'.it_pos = rc.it_pos + 1
                 /\ rc'.expired_jobs = rc.expired_jobs
        /\ (SweepEnds /\ rc.logged # <<>>)
              => \A j \in SweepIds \ SeqToSet(rc.logged) :
                    /\ j \in DOMAIN CSV_FILES'
                          => ~(rc.current_time > CSV_FILES'[j].expires_at)
                    /\ j \in Jobs' => j \notin SeqToSet(rc.expired_jobs)]_vars

\* the sweep is at its last pop: the deletion of the first expired artifact
\* raised and that artifact is still there with its job, the second is gone
C10_Witness ==
    /\ rc.pc = "pop_job"
    /\ rc.k = Len(rc.expired_jobs)
    /\ rc.logged # <<>>
    /\ \A j \in SeqToSet(rc.logged) : j \in DOMAIN CSV_FILES /\ j \in Jobs
    /\ \A j \in SeqToSet(rc.expired_jobs) : j \notin DOMAIN CSV_FILES
    /\ csv_keys = rc.logged

\* the place of each column in a row
ColumnAt ==
    [name |-> 1, phone |-> 2, email |-> 3, website |-> 4, address |-> 5,
     rating |-> 6, source |-> 7]

\* C11: the file generate_csv_file writes for a list of contacts is the header
\* name, phone, email, website, address, rating, source followed by one row a
\* contact, in the list's order; every row has the seven cells, the cell of a
\* field being the contact's value, or the empty string when the contact
\* lacks the field.
C11_OneRowPerContact ==
    [][cr.pc = "write_file" =>
        LET leads == cr.results
            table == files'[cr.job_id]
        IN /\ Len(table) = 1 + Len(leads)
           /\ table[1] = <<"name", "phone", "email", "website", "address",
                           "rating", "source">>
           /\ \A r \in 1..Len(leads) :
                /\ Len(table[r + 1]) = 7
                /\ \A field \in DOMAIN ColumnAt :
                      table[r + 1][ColumnAt[field]] =
                          IF field \in DOMAIN leads[r] THEN leads[r][field] ELSE ""]_vars

\* the file of two contacts is written; the first has no e-mail key and its
\* row has an empty third cell, the second is a place with its rating
C11_Witness ==
    /\ cr.pc = "read_file"
    /\ Len(cr.results) = 2
    /\ "email" \notin DOMAIN cr.results[1]
    /\ Get(cr.results[2], "source") = "places"
    /\ Len(files[cr.job_id]) = 3
    /\ files[cr.job_id][2][3] = ""
    /\ files[cr.job_id][3][6] = "4"

\* the records of the two responses in processing order, as <<kind, record,
\* phone found>>: the organic results in input order, then the places
Records(search_results, places_results) ==
    [k \in 1..Len(search_results) |->
        [kind |-> "search", record |-> search_results[k],
         phone |-> _extract_phone(search_results[k].snippet)]]
    \o [k \in 1..Len(places_results) |->
        [kind |-> "places", record |-> places_results[k],
         phone |-> places_results[k].phoneNumber]]

\* the leads one call of the extractor appended to the runner's accumulator
C12_Emitted(j) ==
    SubSeq(task'[j].all_leads, Len(task[j].all_leads) + 1, Len(task'[j].all_leads))

\* C12: one call of extract_leads_from_results emits, in processing order
\* (organic results, then places), one contact for each record in which a
\* non-empty phone was found and whose phone no earlier record had: no contact
\* has an empty phone, no two have the same phone, the contact of a phone
\* comes from the earliest record with it, and two empty responses give no
\* contact.
C12_OneContactPerPhone ==
    [][\A places_results \in PlacesInputs :
         (task'[1].pc = "search" /\ PlacesReturnFrom(1, FALSE, {places_results}))
            => LET records == Records(task[1].search_results, places_results)
                   kept == {k \in 1..Len(records) :
                               /\ records[k].phone # ""
                               /\ \A h \in 1..(k - 1) :
                                     records[h].phone # records[k].phone}
                   leads == C12_Emitted(1)
               IN /\ Len(leads) = Cardinality(kept)
                  /\ \A a \in 1..Len(leads) : leads[a].phone # ""
                  /\ \A a, b \in 1..Len(leads) :
                        a # b => leads[a].phone # leads[b].phone
                  /\ \A a \in 1..Len(leads) :
                        \E k \in kept :
                            /\ Cardinality({h \in kept : h < k}) = a - 1
                            /\ leads[a].phone = records[k].phone
                            /\ leads[a].source = records[k].kind
                            /\ leads[a].website =
                                  IF records[k].kind = "search"
                                  THEN records[k].record.link
                                  ELSE records[k].record.website
                  /\ records = <<>> => leads = <<>>]_vars

\* the call for a query has emitted the organic lead with phone p1 ahead of
\* the place with phone p3, and nothing else
C12_Witness ==
    /\ task[1].pc = "search"
    /\ task[1].i = 1
    /\ Len(task[1].all_leads) = 2
    /\ task[1].all_leads[1].phone = "p1"
    /\ task[1].all_leads[1].website = "a.com"
    /\ task[1].all_leads[2].phone = "p3"

\* C13: the cleanup thread sweeps for as long as the process lives; no step
\* of create or of a runner ends it.
C13_ReclaimerNeverStops == rc.pc # "dead"

\* C14: whatever create calls run between the steps of a sweep, an artifact
\* leaves CSV_FILES only when the clock is past the expires_at the entry holds
\* at that moment, and a job leaves LEAD_JOBS only when no unexpired artifact
\* of that job is held.
C14_RemovesOnlyExpired ==
    [][/\ \A j \in DOMAIN CSV_FILES :
            j \notin DOMAIN CSV_FILES' => now > CSV_FILES[j].expires_at
       /\ \A j \in DOMAIN LEAD_JOBS :
            /\ j \notin DOMAIN LEAD_JOBS'
            /\ j \in DOMAIN CSV_FILES
            => now > CSV_FILES[j].expires_at]_vars

\* a runner that has started and has not returned
Running(j) == task[j].pc \notin {"none", "done"}

\* C15: a sweep never removes a job whose status is processing, and the job
\* of a runner that has not returned is in LEAD_JOBS, so that the handler of
\* lines 320-333 always finds it and never makes a new entry.
C15_ProcessingJobStays ==
    [][/\ \A j \in DOMAIN LEAD_JOBS :
            LEAD_JOBS[j].status = "processing" => j \in DOMAIN LEAD_JOBS'
       /\ \A j \in DOMAIN task : Running(j)' => j \in DOMAIN LEAD_JOBS']_vars

\* a sweep is removing a job: it is a finished one
C15_Witness ==
    /\ rc.pc = "pop_job"
    /\ rc.expired_jobs[rc.k] \in DOMAIN LEAD_JOBS
    /\ task[rc.expired_jobs[rc.k]].pc = "done"

C17_CallsInSequence ==
    [][\A j \in DOMAIN task :
         LET t == task[j]
             u == task'[j]
         IN u # t =>
            /\ u.pc = "places" => t.pc = "search" /\ u.i = t.i
            /\ u.pc = "search" =>
                 \/ t.pc = "gen" /\ u.i = 0 /\ u.all_leads = <<>>
                 \/ /\ t.pc = "places"
                    /\ u.i = t.i + 1
                    /\ \E places_results \in PlacesResponses :
                         u.all_leads = t.all_leads \o
                             extract_leads_from_results(t.search_results,
                                                        places_results)]_vars

\* the organic search of the second query is in flight, the contacts of the
\* first query being in all_leads
C17_Witness ==
    \E j \in DOMAIN task :
        /\ task[j].pc = "search"
        /\ task[j].i = 1
        /\ task[j].all_leads # <<>>

\* a progress value that is a whole number of percent
IsWhole(p) == p % ProgressScale = 0

\* C18 as stated: the progress of every job is a whole number of percent
\* between 0 and 100.
C18_ProgressIsInteger ==
    \A j \in DOMAIN LEAD_JOBS :
        /\ IsWhole(LEAD_JOBS[j].progress)
        /\ 0 <= LEAD_JOBS[j].progress
        /\ LEAD_JOBS[j].progress <= Pct(100)

\* C18: the progress of every job is between 0 and 100; while query i + 1 of
\* n is under way it is 20 + i * (70 / n) exactly, which is a whole number
\* only when n divides 70 * i.
C18_ProgressInRange ==
    \A j \in DOMAIN LEAD_JOBS :
        /\ 0 <= LEAD_JOBS[j].progress
        /\ LEAD_JOBS[j].progress <= Pct(100)
        /\ task[j].pc \in {"search", "places"} =>
             /\ task[j].n \in 1..MaxQueries
             /\ LEAD_JOBS[j].progress * task[j].n
                    = Pct(20) * task[j].n + task[j].i * Pct(70)
             /\ IsWhole(LEAD_JOBS[j].progress) <=> (70 * task[j].i) % task[j].n = 0

\* the first of three queries is done: the progress is 43 and a third
C18_Witness ==
    \E j \in DOMAIN LEAD_JOBS :
        /\ task[j].n = 3
        /\ task[j].i = 1
        /\ 3 * LEAD_JOBS[j].progress = Pct(130)
        /\ ~IsWhole(LEAD_JOBS[j].progress)

\* C19: every create call that succeeds leaves for its job id an entry whose
\* expires_at is the time of the call plus CSV_TTL_SECONDS, whatever entry was
\* there before, and returns the rows of the job's results: a call that finds
\* the file of an earlier call writes the same content over it.
C19_AlwaysOverwrite ==
    [][/\ (cr.pc = "store" /\ cr' # cr) =>
            LET j == cr.job_id
            IN /\ j \in DOMAIN CSV_FILES'
               /\ CSV_FILES'[j].expires_at = now + CSV_TTL_SECONDS
               /\ reply'.tool = "create" /\ ~reply'.raised
               /\ reply'.result = "completed"
               /\ reply'.csv_content = CsvRows(cr.results)
               /\ j \in DOMAIN LEAD_JOBS => cr.results = LEAD_JOBS[j].results
       /\ (cr.pc = "write_file" /\ cr' # cr /\ cr.job_id \in DOMAIN files) =>
            files'[cr.job_id] = files[cr.job_id]]_vars

\* a second call for a job with contacts has written and read the file and
\* is about to replace an entry whose expiry is older than the one it stamps
C19_Witness ==
    /\ cr.pc = "store"
    /\ cr.results # <<>>
    /\ cr.job_id \in DOMAIN CSV_FILES
    /\ CSV_FILES[cr.job_id].expires_at < now + CSV_TTL_SECONDS
    /\ cr.job_id \in DOMAIN files
    /\ files[cr.job_id] = cr.csv_content

\* C20: every job id that has an entry in CSV_FILES has an entry in LEAD_JOBS
\* whose status is completed.
C20_ArtifactHasCompletedJob ==
    \A j \in DOMAIN CSV_FILES :
        j \in DOMAIN LEAD_JOBS /\ LEAD_JOBS[j].status = "completed"

\* a step of the runner of job j: its coroutine moves on or returns
RunnerStep(j) == task[j].pc # "none" /\ task'[j] # task[j]

\* the fields of a job's record that its runner writes
RunnerFields == {"status", "progress", "results", "error", "completed_at"}

====
